---- MODULE Spec2Model ----
(***************************************************************************)
(* Model of three notebooks, each run in a kernel of its own.              *)
(*                                                                         *)
(* logging_model_with_mlflow.ipynb: a notebook                             *)
(* session (kernel namespace and working directory), the tracking store    *)
(* the cells log runs and model bundles to, and the loading of a logged    *)
(* bundle through the hooks the notebook defines (ModelWrapper.load_context*)
(* and loader_module._load_pyfunc).  Cells may be executed in any order,   *)
(* one at a time, or all in document order (Run All); a training cell runs *)
(* statement by statement inside its `with mlflow.start_run()` block, and  *)
(* an exception leaves the block.                                          *)
(*                                                                         *)
(* using_mlflow_rest_api.ipynb: the kernel namespace, the token endpoint   *)
(* and the tracking endpoint; every cell is one statement (or a few plain  *)
(* assignments) and cells are executed in any order.                       *)
(*                                                                         *)
(* part_000 (attaching a Synapse Spark pool): the kernel namespace, the    *)
(* operations the workspace has accepted and not yet completed, and the    *)
(* compute attached to the workspace; cells are executed in any order.     *)
(***************************************************************************)
EXTENDS Integers, Sequences, FiniteSets, TLC

\* ---------------------------------------------------------------- bounds
MaxRuns == 2        \* runs started by cells executed by hand
MaxInput == 1       \* inputs handed to predict are 0..MaxInput
NumTokens == 1      \* access tokens the token endpoint hands out are 1..NumTokens
MaxExperiments == 1 \* experiments the tracking endpoint lists: at most this many
MaxPending == 2     \* compute operations the workspace may have in progress

Inputs == 0..MaxInput

VARIABLES
    notebook,    \* the notebook this kernel runs
    docPos,      \* Run All: number of cells started so far; -1: cells are
                 \* run by hand, in any order
    cell,        \* the training cell being executed, or "none"
    step,        \* index of the next statement of that cell
    error,       \* exception propagating out of the running cell's with block
    experiment,  \* experiment selected by mlflow.set_experiment
    data,        \* "none", "df" (csv read), "split" (X_train.. bound)
    wrapper,     \* which ModelWrapper class the name is bound to
    model,       \* the global `model`: -1 unbound, 0 constructed and not
                 \* fitted, otherwise the weights it holds
    autolog,     \* mlflow.xgboost.autolog setting
    xgbFile,     \* content of ./xgb.model (0: absent)
    loaderFile,  \* whether ./loader_module.py has been written
    runs,        \* the runs of the tracking store
    activeRun,   \* the active run (0: none)
    store,       \* logged bundles, by artifact URI <<run, artifact_path>>
    handle,      \* result of the last load
    result,      \* result of the last predict on the handle
    logged,      \* history: every bundle as it was when it was logged
    wire,        \* the external requests the statement just executed issued
    \* using_mlflow_rest_api.ipynb
    rnames,      \* names bound in the kernel namespace
    rcell,       \* the cell executed last
    rerror,      \* the exception it raised, "none" if it completed
    auth_response, token_data, headers, response,
    rdata,       \* the notebook's `data`
    table,       \* the output displayed under the last cell (the DataFrame)
    issued,      \* history: token objects the endpoint returned with both fields
    \* part_000
    cns,         \* the kernel namespace
    ccell,       \* the cell executed last
    cerror,      \* the exception it raised, "none" if it completed
    pending,     \* operations the workspace accepted and has not completed
    attached     \* the compute attached to the workspace

loggingVars == <<docPos, cell, step, error, experiment, data, wrapper, model, autolog,
                 xgbFile, loaderFile, runs, activeRun, store, handle, result,
                 logged>>
restVars == <<rnames, rcell, rerror, auth_response, token_data, headers, response,
              rdata, table, issued>>
computeVars == <<cns, ccell, cerror, pending, attached>>
vars == <<notebook, wire, loggingVars, restVars, computeVars>>

Bound(m) == m >= 0
Fitted(m) == m >= 1

\* --------------------------------------------------- the wrapped estimator
\* XGBClassifier's two inference methods, as functions of the fitted weights:
\* predict_proba gives the two class probabilities, predict the likelier class.
Score(w, x) == (w * (x + 1)) % 3

PredictProba(w, x) == <<2 - Score(w, x), Score(w, x)>>

PredictLabel(w, x) == IF Score(w, x) > 2 - Score(w, x) THEN <<1>> ELSE <<0>>

\* ------------------------------------------------------------- the cells
TrainingCells == {"autolog", "flavor", "serial", "artifact", "loader"}

StepsLogBeforeSave(c) ==
    CASE c = "autolog" -> <<"autolog", "fit", "metric", "exit">>
      [] c \in {"flavor", "serial"} -> <<"autolog", "fit", "metric", "log", "exit">>
      [] OTHER -> <<"autolog", "fit", "metric", "log", "save", "exit">>

\* the statements of a training cell after `with mlflow.start_run():`
Steps(c) ==
    CASE c = "autolog" -> <<"autolog", "fit", "metric", "exit">>
      [] c \in {"flavor", "serial"} -> <<"autolog", "fit", "metric", "log", "exit">>
      [] OTHER -> <<"autolog", "fit", "metric", "save", "log", "exit">>

At(s) == cell \in TrainingCells /\ Steps(cell)[step] = s

Idle == cell = "none"

\* the cells of the logging notebook, in document order
DocOrder == <<"SetExperiment", "ReadData", "TrainTestSplit", "autolog", "flavor",
              "DefineSerialWrapper", "serial", "DefineArtifactWrapper",
              "artifact", "WriteLoaderModule", "loader">>

ByHand == docPos < 0

\* cell c of the logging notebook may be run now: any cell when cells are run
\* by hand, the next one of the document under Run All
CanRun(c) ==
    /\ notebook = "logging"
    /\ Idle
    /\ IF ByHand THEN TRUE
                 ELSE docPos < Len(DocOrder) /\ DocOrder[docPos + 1] = c

Started == docPos' = IF ByHand THEN docPos ELSE docPos + 1

Advance == step' = step + 1 /\ UNCHANGED <<cell, error>>

\* an exception inside the with block: control goes to the block's exit
Raise(e) == /\ error' = e
            /\ step' = Len(Steps(cell))
            /\ UNCHANGED cell

\* a statement that talks to no service
NoRequest == wire' = <<>>

IssueWithRetry(req) == <<req, req>>

\* a statement that issues request req issues it once
Issue(req) == <<req>>

Request(kind, url, auth) == [kind |-> kind, url |-> url, auth |-> auth]

NoHandle == [uri |-> <<0, "">>, run_id |-> 0, proc |-> "", kind |-> "",
             status |-> "none", w |-> 0, call |-> <<>>]
NoResult == [status |-> "none", x |-> 0, out |-> <<>>]

\* ---- values of using_mlflow_rest_api.ipynb
AccessTokens == 1..NumTokens
TokenFields == {"token_type", "access_token"}

\* a JSON object of the token endpoint holding the fields F
TokenObject(F, t) ==
    [fields |-> F,
     token_type |-> IF "token_type" \in F THEN "Bearer" ELSE "",
     access_token |-> IF "access_token" \in F THEN t ELSE 0]
NoToken == TokenObject({}, 0)
TokenBodies == {TokenObject(F, t) : F \in SUBSET TokenFields, t \in AccessTokens}

\* a JSON object of experiments/list holding the fields F and n experiments
ExperimentObject(F, n) ==
    [fields |-> F,
     experiments |-> IF "experiments" \in F THEN [i \in 1..n |-> i] ELSE <<>>]
NoExperiments == ExperimentObject({}, 0)
ExperimentBodies ==
    {ExperimentObject(F, n) : F \in SUBSET {"experiments"}, n \in 0..MaxExperiments}

\* an HTTP response: a JSON body, or a body .json() cannot decode
NoResponse(none) == [json |-> FALSE, body |-> none]
Responses(bodies, none) ==
    {[json |-> TRUE, body |-> b] : b \in bodies} \cup {NoResponse(none)}

NoHeaders == [content_type |-> "", authorization |-> <<>>]
NoTable == [shown |-> FALSE, rows |-> <<>>]

\* ---- values of part_000
\* the parameters of a management request, or a compute descriptor: the
\* fields F it carries and their values
Payload(F, name, resource_id, identity, action) ==
    [fields |-> F, name |-> name, resource_id |-> resource_id,
     identity |-> identity, action |-> action]
NoCompute == Payload({}, "", "", "", "")

ComputeRequest(kind, payload) == [kind |-> kind, payload |-> payload]

\* the namespace of a fresh session
FreshNamespace ==
    [bound |-> {}, synapse_name |-> "", synapse_resource |-> "",
     synapse_identity |-> "", synapse_comp |-> NoCompute]

Init ==
    /\ notebook \in {"logging", "rest", "compute"}
    /\ docPos \in IF notebook = "logging" THEN {-1, 0} ELSE {-1}
    /\ cell = "none" /\ step = 0 /\ error = "none"
    /\ experiment = "Default" /\ data = "none"
    /\ wrapper = "none" /\ model = -1 /\ autolog = "unset"
    /\ xgbFile = 0 /\ loaderFile = FALSE
    /\ runs = <<>> /\ activeRun = 0
    /\ store = <<>>
    /\ handle = NoHandle /\ result = NoResult
    /\ logged = <<>>
    /\ wire = <<>>
    /\ rnames = {} /\ rcell = "none" /\ rerror = "none"
    /\ auth_response = NoResponse(NoToken) /\ token_data = NoToken
    /\ headers = NoHeaders
    /\ response = NoResponse(NoExperiments) /\ rdata = NoExperiments
    /\ table = NoTable
    /\ issued = {}
    /\ cns = FreshNamespace /\ ccell = "none" /\ cerror = "none"
    /\ pending = <<>> /\ attached = NoCompute

\* ------------------------------------------------------ set-up cells
SetExperiment ==
    /\ CanRun("SetExperiment") /\ Started
    /\ experiment' = "heart-disease-classifier"
    /\ NoRequest
    /\ UNCHANGED <<notebook, restVars, computeVars, cell, step, error, data, wrapper, model, autolog, xgbFile,
                   loaderFile, runs, activeRun, store, handle, result, logged>>

ReadData ==
    /\ CanRun("ReadData") /\ Started
    /\ data' = IF data = "none" THEN "df" ELSE data
    /\ NoRequest
    /\ UNCHANGED <<notebook, restVars, computeVars, cell, step, error, experiment, wrapper, model, autolog, xgbFile,
                   loaderFile, runs, activeRun, store, handle, result, logged>>

TrainTestSplit ==
    /\ CanRun("TrainTestSplit") /\ Started
    /\ data' = IF data = "none" THEN data ELSE "split"   \* NameError: df unbound
    /\ NoRequest
    /\ UNCHANGED <<notebook, restVars, computeVars, cell, step, error, experiment, wrapper, model, autolog, xgbFile,
                   loaderFile, runs, activeRun, store, handle, result, logged>>

\* class ModelWrapper(PythonModel) with __init__(self, model)
DefineSerialWrapper ==
    /\ CanRun("DefineSerialWrapper") /\ Started
    /\ wrapper' = "serial"
    /\ NoRequest
    /\ UNCHANGED <<notebook, restVars, computeVars, cell, step, error, experiment, data, model, autolog, xgbFile,
                   loaderFile, runs, activeRun, store, handle, result, logged>>

\* class ModelWrapper(PythonModel) with load_context(self, context)
DefineArtifactWrapper ==
    /\ CanRun("DefineArtifactWrapper") /\ Started
    /\ wrapper' = "artifact"
    /\ NoRequest
    /\ UNCHANGED <<notebook, restVars, computeVars, cell, step, error, experiment, data, model, autolog, xgbFile,
                   loaderFile, runs, activeRun, store, handle, result, logged>>

\* %%writefile loader_module.py
WriteLoaderModule ==
    /\ CanRun("WriteLoaderModule") /\ Started
    /\ loaderFile' = TRUE
    /\ NoRequest
    /\ UNCHANGED <<notebook, restVars, computeVars, cell, step, error, experiment, data, wrapper, model, autolog,
                   xgbFile, runs, activeRun, store, handle, result, logged>>

\* ------------------------------------------------------ the tracking store
\* start_run(run_id=<the last run>) would resume that run instead
NewRunIdResumed(rs) == IF rs = <<>> THEN 1 ELSE Len(rs)

\* start_run() creates a run of its own
NewRunId(rs) == Len(rs) + 1

\* a store that keys bundles by their name alone
ArtifactUriByName(r, path) == <<0, path>>

\* log_model's artifact_path is relative to the artifacts of the active run
ArtifactUri(r, path) == <<r, path>>

NewRun == [experiment |-> experiment, status |-> "RUNNING", accuracy |-> FALSE]

\* the bundle mlflow.xgboost.log_model / autolog writes for `model`
XgboostBundle(r, sig) ==
    [run_id |-> r, kind |-> "xgboost", w |-> model, memW |-> model,
     sigOut |-> sig, artifacts |-> {}, code |-> {}, loader |-> "", data |-> ""]

SerialBundleLabels(r) ==
    [run_id |-> r, kind |-> "serial", w |-> model, memW |-> model,
     sigOut |-> "labels", artifacts |-> {}, code |-> {}, loader |-> "", data |-> ""]

\* python_model=ModelWrapper(model): the wrapper is pickled with its _model;
\* signature = infer_signature(X_test, y_probs)
SerialBundle(r) ==
    [run_id |-> r, kind |-> "serial", w |-> model, memW |-> model,
     sigOut |-> "probs", artifacts |-> {}, code |-> {}, loader |-> "", data |-> ""]

ArtifactBundleOtherKey(r) ==
    [run_id |-> r, kind |-> "artifact", w |-> xgbFile, memW |-> model,
     sigOut |-> "probs", artifacts |-> {"xgb.model"}, code |-> {}, loader |-> "",
     data |-> ""]

\* python_model=ModelWrapper(), artifacts={"model": model_path}: the file at
\* model_path is copied into the bundle
ArtifactBundle(r) ==
    [run_id |-> r, kind |-> "artifact", w |-> xgbFile, memW |-> model,
     sigOut |-> "probs", artifacts |-> {"model"}, code |-> {}, loader |-> "",
     data |-> ""]

\* data_path=model_path, code_path=["loader_module.py"], loader_module=...
LoaderBundle(r) ==
    [run_id |-> r, kind |-> "loader", w |-> xgbFile, memW |-> model,
     sigOut |-> "probs", artifacts |-> {}, code |-> {"loader_module.py"},
     loader |-> "loader_module", data |-> "xgb.model"]

Put(u, b) == (u :> b) @@ store

\* the bundle b is written under artifact_path of the active run
Log(path, b) ==
    /\ store' = Put(ArtifactUri(activeRun, path), b)
    /\ logged' = Append(logged, [run |-> activeRun, path |-> path, bundle |-> b])

\* ------------------------------------------------------ training cells
\* `with mlflow.start_run():` of training cell c
StartRun(c) ==
    /\ CanRun(c) /\ Started
    /\ ByHand => Len(runs) < MaxRuns
    /\ LET r == NewRunId(runs) IN
         /\ runs' = IF r > Len(runs) THEN Append(runs, NewRun)
                    ELSE [runs EXCEPT ![r] = NewRun]
         /\ activeRun' = r
    /\ cell' = c /\ step' = 1 /\ error' = "none"
    /\ NoRequest
    /\ UNCHANGED <<notebook, restVars, computeVars, experiment, data, wrapper, model, autolog, xgbFile,
                   loaderFile, store, handle, result, logged>>

AutologArgModels(c) == "models"

\* mlflow.xgboost.autolog() in the first training cell, (log_models=False) after
AutologArg(c) == IF c = "autolog" THEN "models" ELSE "nomodels"

Autolog ==
    /\ At("autolog")
    /\ autolog' = AutologArg(cell)
    /\ Advance
    /\ NoRequest
    /\ UNCHANGED <<notebook, restVars, computeVars, docPos, experiment, data, wrapper, model, xgbFile, loaderFile,
                   runs, activeRun, store, handle, result, logged>>

\* the weights fit() leaves in the estimator trained in run r
FitWeights(r) == r

\* model = XGBClassifier(...); model.fit(X_train, ...)
Fit ==
    /\ At("fit")
    /\ IF data # "split"
       THEN /\ model' = 0                       \* X_train is not bound
            /\ Raise("NameError")
            /\ UNCHANGED <<store, logged>>
       ELSE /\ model' = FitWeights(activeRun)
            /\ IF autolog = "models"     \* autolog logs the fitted model
               THEN Log("model", [XgboostBundle(activeRun, "labels")
                                     EXCEPT !.w = FitWeights(activeRun),
                                            !.memW = FitWeights(activeRun)])
               ELSE UNCHANGED <<store, logged>>
            /\ Advance
    /\ wire' = IF data = "split" /\ autolog = "models"
               THEN Issue(Request("log_model", "model", <<>>))
               ELSE <<>>
    /\ UNCHANGED <<notebook, restVars, computeVars, docPos, experiment, data, wrapper, autolog, xgbFile, loaderFile,
                   runs, activeRun, handle, result>>

\* y = model.predict / predict_proba(X_test); log_metric("accuracy", ...)
LogMetric ==
    /\ At("metric")
    /\ runs' = [runs EXCEPT ![activeRun].accuracy = TRUE]
    /\ Advance
    /\ wire' = Issue(Request("log_metric", "accuracy", <<>>))
    /\ UNCHANGED <<notebook, restVars, computeVars, docPos, experiment, data, wrapper, model, autolog, xgbFile,
                   loaderFile, activeRun, store, handle, result, logged>>

\* model_path = "xgb.model"; model.save_model(model_path)
SaveModel ==
    /\ At("save")
    /\ xgbFile' = model
    /\ Advance
    /\ NoRequest
    /\ UNCHANGED <<notebook, restVars, computeVars, docPos, experiment, data, wrapper, model, autolog, loaderFile,
                   runs, activeRun, store, handle, result, logged>>

WrapperErrorLenient(c) == "none"

\* the exception evaluating python_model=ModelWrapper(...) raises, if any
WrapperError(c) ==
    CASE wrapper = "none" -> "NameError"
      [] c = "serial" /\ wrapper = "artifact" -> "TypeError"   \* ModelWrapper(model)
      [] c = "artifact" /\ wrapper = "serial" -> "TypeError"   \* ModelWrapper()
      [] OTHER -> "none"

\* the exception of the log_model call of training cell c, "none" if it succeeds
LogError(c) ==
    CASE c \in {"serial", "artifact"} -> WrapperError(c)
      [] c = "loader" /\ ~loaderFile -> "FileNotFoundError"
      [] OTHER -> "none"

LoggedBundle(c, r) ==
    CASE c = "flavor" -> XgboostBundle(r, "labels")
      [] c = "serial" -> SerialBundle(r)
      [] c = "artifact" -> ArtifactBundle(r)
      [] OTHER -> LoaderBundle(r)

\* signature = infer_signature(...); mlflow.<flavor>.log_model("classifier", ...)
LogModel ==
    /\ At("log")
    /\ IF LogError(cell) # "none"
       THEN Raise(LogError(cell)) /\ UNCHANGED <<store, logged>> /\ NoRequest
       ELSE /\ wire' = Issue(Request("log_model", "classifier", <<>>))
            /\ \/ Log("classifier", LoggedBundle(cell, activeRun)) /\ Advance
               \* the tracking server rejects the upload
               \/ Raise("MlflowException") /\ UNCHANGED <<store, logged>>
    /\ UNCHANGED <<notebook, restVars, computeVars, docPos, experiment, data, wrapper, model, autolog, xgbFile,
                   loaderFile, runs, activeRun, handle, result>>

EndStatusLeftRunning(e) == IF e = "none" THEN "FINISHED" ELSE "RUNNING"

\* the status the exit of `with mlflow.start_run()` gives the run when the
\* block ends with exception e ("none": the body finished)
EndStatus(e) == IF e = "none" THEN "FINISHED" ELSE "FAILED"

\* leaving the with block ends the run, normally or with the exception
EndRun ==
    /\ At("exit")
    /\ runs' = [runs EXCEPT ![activeRun].status = EndStatus(error)]
    /\ activeRun' = 0
    /\ cell' = "none" /\ step' = 0 /\ error' = "none"
    \* Run All stops at the first cell that raises
    /\ docPos' = IF ~ByHand /\ error # "none" THEN Len(DocOrder) ELSE docPos
    /\ NoRequest
    /\ UNCHANGED <<notebook, restVars, computeVars, experiment, data, wrapper, model, autolog, xgbFile,
                   loaderFile, store, handle, result, logged>>

\* ------------------------------------------------------ loading a bundle
Procs == {"session", "fresh"}

\* ModelWrapper.load_context (artifact variant): the names its body uses and
\* the names that are local to it (parameters and the import inside the body)
LoadContextUses == {"self", "context", "XGBClassifier", "model"}
LoadContextLocals == {"self", "context", "XGBClassifier"}

\* loader_module.py: the names the module binds, and for _load_pyfunc the
\* names its body uses and the ones local to it
LoaderModuleGlobals == {"MyModel", "_load_pyfunc"}
LoadPyfuncUses == {"os", "XGBClassifier", "model", "data_path", "MyModel"}
LoadPyfuncLocals == {"data_path", "os", "model"}

\* how an adapter's predict is declared, without self
SerialWrapperPredictParams == <<"context", "data">>
ArtifactWrapperPredictParamsNoContext == <<"data">>
ArtifactWrapperPredictParams == <<"context", "data">>
MyModelPredictParams == <<"data">>

PredictParams(kind) ==
    CASE kind = "serial" -> SerialWrapperPredictParams
      [] kind = "artifact" -> ArtifactWrapperPredictParams
      [] OTHER -> MyModelPredictParams

\* What the global name `model` of the unpickled ModelWrapper class can be
\* bound to in the loading process: the session's own `model`, a copy pickled
\* along with the class, or nothing.
ModelBindings(proc) ==
    IF proc = "session" /\ Bound(model) THEN {"session", "captured"}
    ELSE {"unbound", "captured"}

Handle(u, proc, st, w, call) ==
    [uri |-> u, run_id |-> store[u].run_id, proc |-> proc,
     kind |-> store[u].kind, status |-> st, w |-> w, call |-> call]

\* the keys load_context looks up in context.artifacts
LoadContextArtifacts == {"model"}

\* python_model.load_context(context) on the unpickled artifact ModelWrapper:
\*   self._model = XGBClassifier(...)
\*   model.load_model(context.artifacts["model"])
LoadContext(u, proc, binding) ==
    LET free == LoadContextUses \ LoadContextLocals
        unbound == IF binding = "unbound" THEN free ELSE {}
        selfModel == 0
    IN  IF unbound # {}
        THEN /\ handle' = Handle(u, proc, "NameError", 0, <<"ModelWrapper", "load_context", "model">>)
             /\ UNCHANGED model
        ELSE IF ~(LoadContextArtifacts \subseteq store[u].artifacts)
        THEN /\ handle' = Handle(u, proc, "KeyError", 0, <<"ModelWrapper", "load_context", "model">>)
             /\ UNCHANGED model
        ELSE /\ handle' = Handle(u, proc, "ok", selfModel, <<"ModelWrapper", "load_context", "model">>)
             /\ model' = IF binding = "session" THEN store[u].w ELSE model

\* loader_module._load_pyfunc(data_path):
\*   model = XGBClassifier(...); model.load_model(abspath(data_path))
\*   return MyModel(model)
LoadPyfunc(u, proc) ==
    LET unbound == LoadPyfuncUses \ (LoadPyfuncLocals \cup LoaderModuleGlobals)
        call == <<store[u].loader, "_load_pyfunc", store[u].data>>
    IN  /\ handle' = IF unbound # {}
                     THEN Handle(u, proc, "NameError", 0, call)
                     ELSE Handle(u, proc, "ok", store[u].w, call)
        /\ UNCHANGED model

\* load of the bundle at URI u in process proc
Load(u, proc) ==
    /\ notebook = "logging" /\ Idle
    /\ u \in DOMAIN store
    /\ CASE store[u].kind = "artifact" ->
              \E binding \in ModelBindings(proc) : LoadContext(u, proc, binding)
         [] store[u].kind = "loader" -> LoadPyfunc(u, proc)
         [] OTHER -> /\ handle' = Handle(u, proc, "ok", store[u].w, <<>>)
                     /\ UNCHANGED model
    /\ result' = NoResult
    /\ NoRequest
    /\ UNCHANGED <<notebook, restVars, computeVars, docPos, cell, step, error, experiment, data, wrapper, autolog,
                   xgbFile, loaderFile, runs, activeRun, store, logged>>

\* the kind of value predict returns for a bundle of the given kind: the
\* xgboost flavor calls model.predict, the adapters return
\* self._model.predict_proba(data)
PredictReturns(kind) == IF kind = "xgboost" THEN "labels" ELSE "probs"

\* predict on the loaded handle
Predict(x) ==
    /\ notebook = "logging" /\ Idle
    /\ handle.status = "ok"
    /\ result' = IF ~Fitted(handle.w)
                 THEN [status |-> "NotFittedError", x |-> x, out |-> <<>>]
                 ELSE [status |-> "ok", x |-> x,
                       out |-> IF PredictReturns(handle.kind) = "labels"
                               THEN PredictLabel(handle.w, x)
                               ELSE PredictProba(handle.w, x)]
    /\ NoRequest
    /\ UNCHANGED <<notebook, restVars, computeVars, docPos, cell, step, error, experiment, data, wrapper, model,
                   autolog, xgbFile, loaderFile, runs, activeRun, store, handle, logged>>

\* ------------------------------------------------------ tracking REST API
\* the cells of using_mlflow_rest_api.ipynb that only import or assign
ConfigCells == {"import_requests", "credentials", "mso_url", "mso_body",
                "workspace", "mlflow_base", "import_pandas"}

\* the names the statements of a cell read from the namespace
Reads(c) ==
    CASE c = "mso_url" -> {"tenant_id"}
      [] c = "mso_body" -> {"grant_type", "client_id", "client_secret", "resource_scope"}
      [] c = "post" -> {"requests", "mso_url", "mso_body"}
      [] c = "token_data" -> {"auth_response"}
      [] c = "mlflow_base" -> {"location", "subscription_id", "resource_group",
                               "workspace_name"}
      [] c = "headers" -> {"token_data"}
      [] c = "get" -> {"requests", "azure_ml_mlflow_base", "mlflow_api_path", "headers"}
      [] c = "data" -> {"response"}
      [] c = "frame" -> {"pd", "data"}
      [] OTHER -> {}

\* the names a cell binds when it completes
Binds(c) ==
    CASE c = "import_requests" -> {"requests"}
      [] c = "credentials" -> {"tenant_id", "client_id", "client_secret", "grant_type",
                               "resource_scope"}
      [] c = "mso_url" -> {"mso_url"}
      [] c = "mso_body" -> {"mso_body"}
      [] c = "post" -> {"auth_response"}
      [] c = "token_data" -> {"token_data"}
      [] c = "workspace" -> {"subscription_id", "resource_group", "workspace_name",
                             "location"}
      [] c = "mlflow_base" -> {"azure_ml_mlflow_base", "mlflow_api_path"}
      [] c = "headers" -> {"headers"}
      [] c = "get" -> {"response"}
      [] c = "data" -> {"data"}
      [] c = "import_pandas" -> {"pd"}
      [] OTHER -> {}

\* cell c is executed; it raises NameError when a name it reads is unbound
Runs(c) == notebook = "rest" /\ rcell' = c
Unbound(c) == ~(Reads(c) \subseteq rnames)
Completes(c) == rerror' = "none" /\ rnames' = rnames \cup Binds(c)
Raises(e) == rerror' = e /\ UNCHANGED rnames

Assign(c) ==
    /\ Runs(c)
    /\ IF Unbound(c) THEN Raises("NameError") ELSE Completes(c)
    /\ NoRequest
    /\ UNCHANGED <<auth_response, token_data, headers, response, rdata, table, issued>>
    /\ UNCHANGED <<notebook, loggingVars, computeVars>>

\* auth_response = requests.post(url=mso_url, data=mso_body)
Post ==
    /\ Runs("post")
    /\ IF Unbound("post")
       THEN Raises("NameError") /\ NoRequest /\ UNCHANGED <<auth_response, issued>>
       ELSE /\ wire' = Issue(Request("POST", "oauth2/token", <<>>))
            /\ \/ Raises("ConnectionError") /\ UNCHANGED <<auth_response, issued>>
               \/ \E r \in Responses(TokenBodies, NoToken) :
                     /\ auth_response' = r
                     /\ issued' = IF r.json /\ TokenFields \subseteq r.body.fields
                                  THEN issued \cup {r.body} ELSE issued
                     /\ Completes("post")
    /\ UNCHANGED <<token_data, headers, response, rdata, table>>
    /\ UNCHANGED <<notebook, loggingVars, computeVars>>

\* token_data = auth_response.json()
TokenData ==
    /\ Runs("token_data")
    /\ IF Unbound("token_data") THEN Raises("NameError") /\ UNCHANGED token_data
       ELSE IF ~auth_response.json
       THEN Raises("JSONDecodeError") /\ UNCHANGED token_data
       ELSE token_data' = auth_response.body /\ Completes("token_data")
    /\ NoRequest
    /\ UNCHANGED <<auth_response, headers, response, rdata, table, issued>>
    /\ UNCHANGED <<notebook, loggingVars, computeVars>>

\* the exception obj[k] raises for the keys ks looked up, "none" if all present
KeyErrorOf(obj, ks) == IF ks \subseteq obj.fields THEN "none" ELSE "KeyError"

\* f"{token_data['token_type']} {token_data['access_token']}"
AuthorizationTokenOnly(td) == <<td.access_token>>

Authorization(td) == <<td.token_type, " ", td.access_token>>

\* headers = {"Content-Type": "application/json", "Authorization": ...}
Headers ==
    /\ Runs("headers")
    /\ IF Unbound("headers") THEN Raises("NameError") /\ UNCHANGED headers
       ELSE IF KeyErrorOf(token_data, TokenFields) # "none"
       THEN Raises(KeyErrorOf(token_data, TokenFields)) /\ UNCHANGED headers
       ELSE /\ headers' = [content_type |-> "application/json",
                           authorization |-> Authorization(token_data)]
            /\ Completes("headers")
    /\ NoRequest
    /\ UNCHANGED <<auth_response, token_data, response, rdata, table, issued>>
    /\ UNCHANGED <<notebook, loggingVars, computeVars>>

\* response = requests.get(f"{azure_ml_mlflow_base}/{mlflow_api_path}/experiments/list",
\*                         headers=headers)
Get ==
    /\ Runs("get")
    /\ IF Unbound("get")
       THEN Raises("NameError") /\ NoRequest /\ UNCHANGED response
       ELSE /\ wire' = Issue(Request("GET", "api/2.0/mlflow/experiments/list",
                                     headers.authorization))
            /\ \/ Raises("ConnectionError") /\ UNCHANGED response
               \/ \E r \in Responses(ExperimentBodies, NoExperiments) :
                     response' = r /\ Completes("get")
    /\ UNCHANGED <<auth_response, token_data, headers, rdata, table, issued>>
    /\ UNCHANGED <<notebook, loggingVars, computeVars>>

\* data = response.json()
Data ==
    /\ Runs("data")
    /\ IF Unbound("data") THEN Raises("NameError") /\ UNCHANGED rdata
       ELSE IF ~response.json
       THEN Raises("JSONDecodeError") /\ UNCHANGED rdata
       ELSE rdata' = response.body /\ Completes("data")
    /\ NoRequest
    /\ UNCHANGED <<auth_response, token_data, headers, response, table, issued>>
    /\ UNCHANGED <<notebook, loggingVars, computeVars>>

FrameErrorDefaulted(d) == "none"

\* the exception data["experiments"] raises, "none" if the key is present
FrameError(d) == KeyErrorOf(d, {"experiments"})

\* pd.DataFrame(data["experiments"]): the cell's output is the table, or the
\* traceback when the cell raises
Frame ==
    /\ Runs("frame")
    /\ IF Unbound("frame") THEN Raises("NameError") /\ table' = NoTable
       ELSE IF FrameError(rdata) # "none"
       THEN Raises(FrameError(rdata)) /\ table' = NoTable
       ELSE /\ table' = [shown |-> TRUE, rows |-> rdata.experiments]
            /\ Completes("frame")
    /\ NoRequest
    /\ UNCHANGED <<auth_response, token_data, headers, response, rdata, issued>>
    /\ UNCHANGED <<notebook, loggingVars, computeVars>>

\* ------------------------------------------------------ compute attachment
ComputeCells == {"attach", "attach_system", "attach_user", "detach"}
AttachCells == ComputeCells \ {"detach"}

AssignsNoName(c) ==
    {"subscription_id", "resource_group", "workspace_name", "ml_client"}
       \cup (IF c \in AttachCells THEN {"synapse_name", "synapse_resource"} ELSE {})
       \cup (IF c \in {"attach_system", "attach_user"} THEN {"synapse_identity"} ELSE {})

\* the names cell c assigns before it builds the descriptor
Assigns(c) ==
    {"subscription_id", "resource_group", "workspace_name", "ml_client",
     "synapse_name"}
       \cup (IF c \in AttachCells THEN {"synapse_resource"} ELSE {})
       \cup (IF c \in {"attach_system", "attach_user"} THEN {"synapse_identity"} ELSE {})

\* IdentityConfiguration(type=...) of cell c
IdentityOf(c) == IF c = "attach_system" THEN "SystemAssigned" ELSE "UserAssigned"

\* the namespace ns after the assignments of cell c
AfterAssignments(c, ns) ==
    [ns EXCEPT !.bound = @ \cup Assigns(c),
               !.synapse_name = IF "synapse_name" \in Assigns(c)
                                THEN "<ATTACHED_SPARK_POOL_NAME>" ELSE @,
               !.synapse_resource = IF "synapse_resource" \in Assigns(c)
                                    THEN "bigDataPools/<SPARK_POOL_NAME>" ELSE @,
               !.synapse_identity = IF "synapse_identity" \in Assigns(c)
                                    THEN IdentityOf(c) ELSE @]

\* the names SynapseSparkCompute(...) of cell c reads
CompReads(c) ==
    CASE c = "attach" -> {"synapse_name", "synapse_resource"}
      [] c \in {"attach_system", "attach_user"} ->
            {"synapse_name", "synapse_resource", "synapse_identity"}
      [] OTHER -> {}

\* synapse_comp = SynapseSparkCompute(name=..., resource_id=...[, identity=...])
BuildComp(c, ns) ==
    IF c = "attach"
    THEN Payload({"name", "resource_id"}, ns.synapse_name, ns.synapse_resource, "", "")
    ELSE Payload({"name", "resource_id", "identity"}, ns.synapse_name,
                 ns.synapse_resource, ns.synapse_identity, "")

\* the names the request statement of cell c reads
RequestReads(c) ==
    IF c \in AttachCells THEN {"ml_client", "synapse_comp"}
                         ELSE {"ml_client", "synapse_name"}

\* ml_client.begin_create_or_update(synapse_comp)
\* ml_client.compute.begin_delete(name=synapse_name, action="Detach")
RequestOf(c, ns) ==
    IF c \in AttachCells
    THEN ComputeRequest("create_or_update", ns.synapse_comp)
    ELSE ComputeRequest("delete",
                        Payload({"name", "action"}, ns.synapse_name, "", "", "Detach"))

\* cell c executed in namespace ns, up to its request: the namespace it
\* leaves, the exception it raised before the request and the request issued
Run(c, ns) ==
    LET ns1 == AfterAssignments(c, ns)
        built == c \in AttachCells /\ CompReads(c) \subseteq ns1.bound
        ns2 == IF built
               THEN [ns1 EXCEPT !.bound = @ \cup {"synapse_comp"},
                                !.synapse_comp = BuildComp(c, ns1)]
               ELSE ns1
        ok == /\ CompReads(c) \subseteq ns1.bound
              /\ RequestReads(c) \subseteq ns2.bound
    IN  [ns |-> ns2,
         error |-> IF ok THEN "none" ELSE "NameError",
         request |-> IF ok THEN Issue(RequestOf(c, ns2)) ELSE <<>>]

\* begin_create_or_update / begin_delete return a poller once the workspace
\* has accepted the operation; the cell does not wait on it
Begin(op) == [pending |-> Append(pending, op), attached |-> attached]

RunCell(c) ==
    /\ notebook = "compute"
    /\ Len(pending) < MaxPending
    /\ ccell' = c
    /\ LET run == Run(c, cns) IN
         /\ cns' = run.ns
         /\ wire' = run.request
         /\ IF run.error # "none"
            THEN cerror' = run.error /\ UNCHANGED <<pending, attached>>
            ELSE \/ /\ cerror' = "none"
                    /\ pending' = Begin(run.request[Len(run.request)]).pending
                    /\ attached' = Begin(run.request[Len(run.request)]).attached
                 \* the workspace rejects the request
                 \/ /\ cerror' = "HttpResponseError"
                    /\ UNCHANGED <<pending, attached>>
    /\ UNCHANGED <<notebook, loggingVars, restVars>>

\* the workspace completes the i-th operation in progress, or fails it
Complete(i) ==
    /\ notebook = "compute"
    /\ i \in DOMAIN pending
    /\ pending' = [j \in 1..(Len(pending) - 1) |->
                      IF j < i THEN pending[j] ELSE pending[j + 1]]
    /\ \/ attached' = IF pending[i].kind = "delete" THEN NoCompute
                      ELSE pending[i].payload
       \/ UNCHANGED attached
    /\ UNCHANGED <<cns, ccell, cerror, wire>>
    /\ UNCHANGED <<notebook, loggingVars, restVars>>

\* ------------------------------------------------------ specification
Next ==
    \/ SetExperiment
    \/ ReadData
    \/ TrainTestSplit
    \/ DefineSerialWrapper
    \/ DefineArtifactWrapper
    \/ WriteLoaderModule
    \/ \E c \in TrainingCells : StartRun(c)
    \/ Autolog
    \/ Fit
    \/ LogMetric
    \/ SaveModel
    \/ LogModel
    \/ EndRun
    \/ \E u \in DOMAIN store, proc \in Procs : Load(u, proc)
    \/ \E x \in Inputs : Predict(x)
    \/ \E c \in ConfigCells : Assign(c)
    \/ Post
    \/ TokenData
    \/ Headers
    \/ Get
    \/ Data
    \/ Frame
    \/ \E c \in ComputeCells : RunCell(c)
    \/ \E i \in DOMAIN pending : Complete(i)

Spec == Init /\ [][Next]_vars

\* ------------------------------------------------------ properties
\* what the in-memory model's inference method returned at logging time
ExpectedOutput(b, x) ==
    IF b.kind = "xgboost" THEN PredictLabel(b.memW, x) ELSE PredictProba(b.memW, x)

\* C1: for every logged bundle and every input, load followed by predict
\* returns what the in-memory model's inference method returned at logging
\* time: every load yields a handle, and every predict on it that output.
C1_RoundTrip ==
    /\ handle.status # "none" => handle.status = "ok"
    /\ result.status # "none" =>
          /\ result.status = "ok"
          /\ result.out = ExpectedOutput(store[handle.uri], result.x)

\* C2: a load in a fresh process succeeds without the session's `model`: the
\* artifact wrapper's and the loader module's handle hold the model built
\* from the file packaged in the bundle.
C2_FreshProcessLoad ==
    (handle.proc = "fresh" /\ handle.kind \in {"artifact", "loader"}) =>
        (handle.status = "ok" /\ handle.w = store[handle.uri].w)

\* C3: loading the loader-module bundle calls loader_module._load_pyfunc with
\* the bundled xgb.model path, and the call returns an object (no error).
C3_LoaderModuleCall ==
    (handle.kind = "loader" /\ handle.status # "none") =>
        /\ handle.call = <<"loader_module", "_load_pyfunc", "xgb.model">>
        /\ handle.status = "ok"

\* C4: bundles logged under the same name do not overwrite each other: every
\* bundle logged so far is retrievable under its run as it was logged, and a
\* load naming a run yields the bundle of that run.
C4_NoOverwrite ==
    /\ \A i \in DOMAIN logged :
          /\ <<logged[i].run, logged[i].path>> \in DOMAIN store
          /\ store[<<logged[i].run, logged[i].path>>] = logged[i].bundle
    /\ \A u \in DOMAIN store : store[u].run_id = u[1]
    /\ handle.status # "none" =>
          /\ handle.uri \in DOMAIN store
          /\ handle.run_id = handle.uri[1]

\* two bundles named "classifier" exist, and the older one has been loaded
\* after the newer one was logged
C4_Witness ==
    \E u1, u2 \in DOMAIN store :
        /\ u1[2] = "classifier" /\ u2[2] = "classifier"
        /\ u1[1] < u2[1]
        /\ handle.status = "ok" /\ handle.uri = u1

\* C5: a bundle is immutable once logged: no step changes or removes a bundle
\* of the store, also not a later save_model to the local path it was made of.
C5_BundlesImmutable ==
    [][\A u \in DOMAIN store : u \in DOMAIN store' /\ store'[u] = store[u]]_vars

\* an artifact bundle still holds the file it was logged with after a later
\* run saved another model to the same local path
C5_Witness ==
    \E u \in DOMAIN store :
        /\ store[u].kind = "artifact"
        /\ xgbFile # 0 /\ xgbFile # store[u].w

\* C10 as stated: every bundled adapter declares predict(context, input).
C10_UniformPredict ==
    \A u \in DOMAIN store :
        store[u].kind \in {"serial", "artifact", "loader"} =>
            PredictParams(store[u].kind) = <<"context", "data">>

\* C10, amended: both ModelWrapper variants declare predict(context, data);
\* the loader module's MyModel declares predict(data), without a context.
C10_PredictShapes ==
    \A u \in DOMAIN store :
        /\ store[u].kind \in {"serial", "artifact"} =>
              PredictParams(store[u].kind) = <<"context", "data">>
        /\ store[u].kind = "loader" => PredictParams(store[u].kind) = <<"data">>

\* a ModelWrapper bundle and a loader-module bundle have both been logged
C10_Witness ==
    \E u1, u2 \in DOMAIN store :
        store[u1].kind = "artifact" /\ store[u2].kind = "loader"

\* C11: every log_model call declares as signature output the kind of value
\* the logged model's predict returns: labels for the xgboost flavor,
\* per-class probabilities for the three pyfunc bundles.
C11_SignatureMatchesPredict ==
    \A i \in DOMAIN logged :
        logged[i].bundle.sigOut = PredictReturns(logged[i].bundle.kind)

C11_Witness ==
    /\ {logged[i].bundle.kind : i \in DOMAIN logged}
           = {"xgboost", "serial", "artifact", "loader"}
    /\ \E i \in DOMAIN logged : logged[i].path = "classifier"
                                 /\ logged[i].bundle.kind = "xgboost"
    /\ result.status = "ok" /\ handle.kind = "serial"

\* the bundles held by run r
BundlesOf(r) == {u \in DOMAIN store : store[u].run_id = r}

\* C16: no run holds a second bundle and every run whose cell completed holds
\* exactly one; in a cell that calls log_model itself autolog is set to
\* log_models=False when fit is called, whatever an earlier cell enabled.
C16_OneBundlePerRun ==
    /\ \A r \in DOMAIN runs :
          /\ Cardinality(BundlesOf(r)) <= 1
          /\ runs[r].status = "FINISHED" => Cardinality(BundlesOf(r)) = 1
    /\ At("fit") /\ cell # "autolog" => autolog = "nomodels"

C16_Witness ==
    \E r1, r2 \in DOMAIN runs :
        /\ r1 < r2
        /\ BundlesOf(r1) = {<<r1, "model">>}
        /\ BundlesOf(r2) = {<<r2, "classifier">>}
        /\ runs[r2].status = "FINISHED"

\* C18: with the cells run in document order, the ModelWrapper bound when a
\* pyfunc.log_model call constructs it is the definition that accepts the
\* arguments used there; in any order, the serializable cell run while the
\* second definition is bound ends in an error and logs no bundle.
C18_WrapperBoundAtLog ==
    /\ ~ByHand /\ At("log") /\ cell \in {"serial", "artifact"}
          => /\ wrapper = cell
             /\ WrapperError(cell) = "none"
    /\ At("exit") /\ cell = "serial" /\ wrapper = "artifact"
          => /\ error # "none"
             /\ BundlesOf(activeRun) = {}

C18_Witness ==
    /\ At("exit") /\ cell = "serial" /\ wrapper = "artifact"
    /\ error = "TypeError"
    /\ \E i \in DOMAIN logged : logged[i].bundle.kind = "serial"

\* C19: whenever log_model names xgb.model (artifacts or data_path), the file
\* has been written by save_model of the same run; with the cells run in
\* document order, loader_module.py has been written when log_model names it
\* in code_path.
C19_FilesExistAtLog ==
    /\ At("log") /\ cell \in {"artifact", "loader"}
          => /\ Bound(xgbFile) /\ Fitted(xgbFile)
             /\ xgbFile = FitWeights(activeRun)
    /\ ~ByHand /\ At("log") /\ cell = "loader" => loaderFile

C19_Witness ==
    /\ ~ByHand /\ At("log") /\ cell = "loader"
    /\ loaderFile /\ xgbFile = FitWeights(activeRun)
    /\ \E i \in DOMAIN logged : logged[i].bundle.kind = "artifact"

\* C20: every artifact name load_context looks up is a key of the artifacts
\* dictionary its bundle was logged with, so no load of a bundle of this
\* workflow fails on an undeclared artifact name.
C20_ArtifactsDeclared ==
    /\ \A i \in DOMAIN logged :
          logged[i].bundle.kind = "artifact"
             => LoadContextArtifacts \subseteq logged[i].bundle.artifacts
    /\ handle.status # "KeyError"

C20_Witness ==
    /\ handle.kind = "artifact" /\ handle.status = "ok"
    /\ LoadContextArtifacts \subseteq store[handle.uri].artifacts

\* the GET requests among the requests just issued
Gets == {i \in DOMAIN wire : wire[i].kind = "GET"}

\* C12: the experiments GET is only ever issued with an Authorization header
\* made of the token_type, a space and the access_token of a token object the
\* token endpoint returned with both fields; the headers cell run on a token
\* object that lacks a field raises KeyError and binds no headers.
C12_GetCarriesToken ==
    /\ \A i \in Gets : \E tok \in issued :
          wire[i].auth = <<tok.token_type, " ", tok.access_token>>
    /\ "headers" \in rnames =>
          \E tok \in issued :
             headers.authorization = <<tok.token_type, " ", tok.access_token>>
    /\ rcell = "headers" /\ "token_data" \in rnames
          /\ ~(TokenFields \subseteq token_data.fields)
          => rerror = "KeyError"

C12_Witness ==
    /\ Gets # {}
    /\ rcell = "get" /\ rerror = "none"
    /\ token_data \in issued
    /\ \E i \in Gets : wire[i].auth = <<"Bearer", " ", token_data.access_token>>

\* C17: the DataFrame cell run on a JSON object without an "experiments"
\* field raises KeyError and displays no table.
C17_NoTableWithoutExperiments ==
    rcell = "frame" /\ {"pd", "data"} \subseteq rnames
        /\ "experiments" \notin rdata.fields
        => rerror = "KeyError" /\ ~table.shown

C17_Witness ==
    /\ rcell = "frame" /\ {"pd", "data"} \subseteq rnames
    /\ "experiments" \notin rdata.fields
    /\ rerror = "KeyError" /\ ~table.shown

\* C13: no attach is still in progress when a detach of the same name is
\* issued: the operations in progress never hold a create-or-update followed
\* by a delete of the same compute.
C13_AttachCompletedBeforeDetach ==
    ~ \E i, j \in DOMAIN pending :
         /\ i < j
         /\ pending[i].kind = "create_or_update" /\ pending[j].kind = "delete"
         /\ pending[i].payload.name = pending[j].payload.name

\* C15: whatever the namespace earlier cells left, a compute cell issues the
\* request it issues in a fresh session; the detach request carries the
\* compute name and action "Detach" and nothing else.
C15_RequestIndependentOfSession ==
    ccell # "none" =>
        /\ cerror # "NameError"
        /\ wire = Run(ccell, FreshNamespace).request
        /\ Len(wire) = 1
        /\ ccell = "detach" =>
              /\ wire[1].kind = "delete"
              /\ wire[1].payload.fields = {"name", "action"}
              /\ wire[1].payload.name = "<ATTACHED_SPARK_POOL_NAME>"
              /\ wire[1].payload.action = "Detach"

C15_Witness ==
    /\ ccell = "detach" /\ cerror = "none"
    /\ cns.synapse_identity = "UserAssigned"
    /\ "synapse_comp" \in cns.bound
    /\ Len(wire) = 1 /\ wire[1].payload.fields = {"name", "action"}

\* C14: no statement issues its request more than once, and a request that
\* fails ends its cell with the exception of the HTTP or SDK layer: the token
\* POST and the experiments GET leave ConnectionError as the cell's outcome,
\* a rejected log_model leaves the with block, a rejected compute request
\* leaves HttpResponseError, each after the one request.
C14_NoRetry ==
    /\ Len(wire) <= 1
    /\ rerror = "ConnectionError" => Len(wire) = 1 /\ rcell \in {"post", "get"}
    /\ error = "MlflowException" =>
          /\ At("exit") /\ Len(wire) = 1
          /\ BundlesOf(activeRun) = {}
    /\ cerror = "HttpResponseError" => Len(wire) = 1

C14_Witness ==
    /\ rcell = "post" /\ rerror = "ConnectionError"
    /\ wire = <<Request("POST", "oauth2/token", <<>>)>>
    /\ "auth_response" \notin rnames

\* the runs that are active
ActiveRuns == {r \in DOMAIN runs : runs[r].status = "RUNNING"}

\* C21: at most one run is active; while a training cell executes its
\* statements (fit, log_metric, save, log_model) the active run is the one its
\* with block opened, and once the cell has ended, finished or raised, no run
\* is active; with the cells run in document order every run belongs to the
\* experiment heart-disease-classifier.
C21_OneActiveRun ==
    /\ Cardinality(ActiveRuns) <= 1
    /\ Idle => ActiveRuns = {} /\ activeRun = 0
    /\ ~Idle => ActiveRuns = {activeRun}
    /\ \A i \in DOMAIN logged : logged[i].run \in DOMAIN runs
    /\ ~ByHand => \A r \in DOMAIN runs :
                     runs[r].experiment = "heart-disease-classifier"

C21_Witness ==
    /\ ~ByHand /\ Idle /\ ActiveRuns = {}
    /\ \E r \in DOMAIN runs : runs[r].status = "FAILED"
    /\ \E r \in DOMAIN runs : runs[r].status = "FINISHED"
    /\ \A r \in DOMAIN runs : runs[r].experiment = "heart-disease-classifier"
====
